---- MODULE Spec2Model ----
(***************************************************************************)
(* A model of scripts/translate_book.py: the line scanner of               *)
(* translate_file, the inline-span split of translate_line, the chunker    *)
(* chunk_text, the worker translate_chunk, the thread pool of              *)
(* translate_segment and the shared RateLimiter.                           *)
(*                                                                         *)
(* A text is a sequence of characters, a character is a one-element        *)
(* string.  The grave accent (U+0060) cannot be written inside a TLA+      *)
(* string literal, so it is the character named BQ below; the CJK          *)
(* characters of post_process_qmd are named by their code points.          *)
(***************************************************************************)
EXTENDS Integers, Sequences, FiniteSets, TLC

BQ == "BQ"
NL == "\n"
FF == "\f"

\* ------------------------------------------------------------------ text

Letters == {"a", "b", "c", "d", "e", "g", "h", "i", "l", "m", "n", "o", "r",
            "s", "t", "v", "w", "x", "E", "V", "A", "B", "C", "D", "G", "H",
            "I", "L", "M", "N", "O", "R", "S", "T", "W", "X"}
Digits == {"0", "1", "2", "3", "4", "5", "6", "7", "8", "9"}

\* str.strip() and \s: the whitespace characters of the model's alphabet.
IsSpace(c) == c \in {" ", NL, FF, "\t", "\r"}

RECURSIVE Join(_)
\* "".join(list)
Join(list) == IF list = <<>> THEN <<>> ELSE Head(list) \o Join(Tail(list))

Drop(s, n) == SubSeq(s, n + 1, Len(s))
Take(s, n) == SubSeq(s, 1, n)

StartsWith(s, p) == Len(s) >= Len(p) /\ Take(s, Len(p)) = p
EndsWith(s, p) == Len(s) >= Len(p) /\ Drop(s, Len(s) - Len(p)) = p

\* Whether p occurs in s as a contiguous substring.
Contains(s, p) ==
    \E k \in 0..(Len(s) - Len(p)) : SubSeq(s, k + 1, k + Len(p)) = p

RECURSIVE LStrip(_)
LStrip(s) == IF s # <<>> /\ IsSpace(Head(s)) THEN LStrip(Tail(s)) ELSE s

RECURSIVE RStrip(_)
RStrip(s) ==
    IF s # <<>> /\ IsSpace(s[Len(s)]) THEN RStrip(Take(s, Len(s) - 1)) ELSE s

\* str.strip()
strip(s) == LStrip(RStrip(s))

\* A strip that leaves the line as it is.
rstrip_nl_none(s) == s

RECURSIVE rstrip_nl(_)
\* str.rstrip("\n"): every trailing line feed is removed, nothing else.
rstrip_nl(s) ==
    IF s # <<>> /\ s[Len(s)] = NL THEN rstrip_nl(Take(s, Len(s) - 1)) ELSE s

RECURSIVE splitlines_from(_, _, _)
splitlines_from(text, cur, acc) ==
    IF text = <<>>
    THEN IF cur = <<>> THEN acc ELSE Append(acc, cur)
    ELSE IF Head(text) \in {NL, FF}
         THEN splitlines_from(Tail(text), <<>>, Append(acc, Append(cur, Head(text))))
         ELSE splitlines_from(Tail(text), Append(cur, Head(text)), acc)

\* str.splitlines(True): the lines with their line boundary kept.  The line
\* boundaries of the model's alphabet are the line feed and the form feed
\* (read_text has already turned \r\n and \r into \n).
splitlines(text) == splitlines_from(text, <<>>, <<>>)

RECURSIVE replace(_, _, _)
\* str.replace(old, new): every non-overlapping occurrence, left to right.
replace(text, old, new) ==
    IF Len(text) < Len(old) THEN text
    ELSE IF Take(text, Len(old)) = old
         THEN new \o replace(Drop(text, Len(old)), old, new)
         ELSE <<Head(text)>> \o replace(Tail(text), old, new)

\* ------------------------------------------------------------ chunk_text

\* The offset a line break must exceed, from the chunk start, to be cut at.
MinBreakOffset == 80

Min(a, b) == IF a < b THEN a ELSE b

\* s.rfind("\n", i, j): the highest 0-based index k in i..j-1 with s[k] a line
\* feed, or -1.
rfind_nl(s, i, j) ==
    LET hits == {k \in i..(j - 1) : s[k + 1] = NL}
    IN  IF hits = {} THEN -1 ELSE CHOOSE k \in hits : \A h \in hits : h <= k

\* A cut at any line break of the window, however close to the chunk start.
chunk_end_no_offset(s, size, i) ==
    LET j == Min(Len(s), i + size)
        k == rfind_nl(s, i, j)
    IN  IF j < Len(s) /\ k > i THEN k + 1 ELSE j

\* A cut before the line break found, whatever its place.
chunk_end_at_break(s, size, i) ==
    LET j == Min(Len(s), i + size)
        k == rfind_nl(s, i, j)
    IN  IF j < Len(s) /\ k # -1 THEN k ELSE j

\* One iteration of chunk_text's loop at 0-based index i: the end j of the
\* chunk s[i:j].
chunk_end(s, size, i) ==
    LET j == Min(Len(s), i + size)
        k == rfind_nl(s, i, j)
    IN  IF j < Len(s) /\ k > i + MinBreakOffset THEN k + 1 ELSE j

\* A chunk that stops before its last character.
chunk_slice_short(s, i, j) == SubSeq(s, i + 1, j - 1)

\* Line 72: the slice s[i:j].
chunk_slice(s, i, j) == SubSeq(s, i + 1, j)

RECURSIVE chunk_loop(_, _, _, _)
\* Lines 66-74: the loop from index i on, out_ being the chunks so far.
chunk_loop(s, size, i, out_) ==
    IF i < Len(s)
    THEN LET j == chunk_end(s, size, i)
         IN  chunk_loop(s, size, j, Append(out_, chunk_slice(s, i, j)))
    ELSE out_

chunk_text(s, size) == chunk_loop(s, size, 0, <<>>)

\* --------------------------------------------------------- PROTECTED_RE

\* The end (1-based, inclusive) of the match of `[^`]*` or \$[^$]*\$ that
\* starts at 1-based position p of s, or 0 when neither alternative matches
\* there: the delimiter at p, then the next occurrence of the same delimiter.
PROTECTED_RE(s, p) ==
    IF s[p] \in {BQ, "$"}
    THEN LET later == {q \in (p + 1)..Len(s) : s[q] = s[p]}
         IN  IF later = {} THEN 0
             ELSE CHOOSE q \in later : \A r \in later : q <= r
    ELSE 0

RECURSIVE re_split(_, _, _, _)
\* PROTECTED_RE.split(line), scanning from p with the unmatched text starting
\* at `start`: the unmatched texts (empty ones included) alternate with the
\* captured matches.
re_split(s, start, p, acc) ==
    IF p > Len(s) THEN Append(acc, SubSeq(s, start, Len(s)))
    ELSE LET q == PROTECTED_RE(s, p)
         IN  IF q = 0 THEN re_split(s, start, p + 1, acc)
             ELSE re_split(s, q + 1, q + 1,
                           acc \o <<SubSeq(s, start, p - 1), SubSeq(s, p, q)>>)

split(line) == re_split(line, 1, 1, <<>>)

\* A test that forgets math spans.
is_protected_code_only(part) ==
    StartsWith(part, <<BQ>>) /\ EndsWith(part, <<BQ>>)

\* translate_line's test of a part: it is kept verbatim when it starts and
\* ends with a backtick, or starts and ends with a dollar sign.
is_protected(part) ==
    \/ (StartsWith(part, <<BQ>>) /\ EndsWith(part, <<BQ>>))
    \/ (StartsWith(part, <<"$">>) /\ EndsWith(part, <<"$">>))

\* ------------------------------------------------------- translate_chunk

\* The characters of the class [\s\d#>*\-`~:;,.!\[\](){}+=_/\\|].
inert_char(c) ==
    \/ IsSpace(c)
    \/ c \in Digits
    \/ c \in {"#", ">", "*", "-", BQ, "~", ":", ";", ",", ".", "!", "[", "]",
              "(", ")", "{", "}", "+", "=", "_", "/", "\\", "|"}

\* A guard without the structural-only pattern.
is_inert_blank_only(chunk) == strip(chunk) = <<>>

\* The guard of translate_chunk: not chunk.strip(), or the whole chunk matches
\* the class above one or more times.
is_inert(chunk) ==
    \/ strip(chunk) = <<>>
    \/ (chunk # <<>> /\ \A k \in 1..Len(chunk) : inert_char(chunk[k]))

\* The translation capability is opaque.  A call either raises, returns a
\* falsy result (None or ""), or returns a text; the text returned is the
\* chunk with every letter put in upper case and everything else kept.
Outcomes == {"raise", "empty", "text"}

Upper(c) ==
    CASE c = "a" -> "A" [] c = "b" -> "B" [] c = "c" -> "C" [] c = "d" -> "D"
      [] c = "e" -> "E" [] c = "g" -> "G" [] c = "h" -> "H" [] c = "i" -> "I"
      [] c = "l" -> "L" [] c = "n" -> "N" [] c = "o" -> "O" [] c = "r" -> "R"
      [] c = "s" -> "S" [] c = "t" -> "T" [] c = "v" -> "V" [] c = "x" -> "X"
      [] c = "m" -> "M" [] c = "w" -> "W"
      [] OTHER -> c

translate(chunk) == [k \in 1..Len(chunk) |-> Upper(chunk[k])]

\* What a call of translate_chunk comes to: it returns txt, or an exception
\* leaves it.
Returns(txt) == [raised |-> FALSE, txt |-> txt]
Raises == [raised |-> TRUE, txt |-> <<>>]

\* A try block without its except branch: what the call raises leaves
\* translate_chunk.
try_translate_no_except(chunk, outcome) ==
    CASE outcome = "raise" -> Raises
      [] outcome = "empty" -> Returns(chunk)
      [] OTHER -> Returns(IF translate(chunk) = <<>> THEN chunk ELSE translate(chunk))

\* A try block without the `or chunk`: a falsy result is returned as it is.
try_translate_accept_empty(chunk, outcome) ==
    CASE outcome = "raise" -> Returns(chunk)
      [] outcome = "empty" -> Returns(<<>>)
      [] OTHER -> Returns(translate(chunk))

\* Lines 87-91, for a call of the capability that ends as `outcome`: the try
\* block returns translator.translate(chunk) or chunk, and the except branch
\* returns chunk.
try_translate(chunk, outcome) ==
    CASE outcome = "raise" -> Returns(chunk)
      [] outcome = "empty" -> Returns(chunk)
      [] OTHER -> Returns(IF translate(chunk) = <<>> THEN chunk ELSE translate(chunk))

\* Lines 83-91: what translate_chunk comes to for `chunk`.
translate_chunk(chunk, outcome) ==
    IF is_inert(chunk) THEN Returns(chunk) ELSE try_translate(chunk, outcome)

\* How the call of the capability made for `chunk` can end; an inert chunk
\* makes no call.
OutcomesFor(chunk) == IF is_inert(chunk) THEN {"none"} ELSE Outcomes

\* ------------------------------------------------------ post_process_qmd

LangEn == <<"l", "a", "n", "g", ":", " ", "e", "n">>
LangPrefix == <<"l", "a", "n", "g", ":", " ">>
EnIndex == <<"]", "(", "e", "n", "/", "i", "n", "d", "e", "x", ".", "q", "m", "d", ")">>
ViIndex == <<"]", "(", "v", "i", "/", "i", "n", "d", "e", "x", ".", "q", "m", "d", ")">>
ZhIndex == <<"]", "(", "z", "h", "/", "i", "n", "d", "e", "x", ".", "q", "m", "d", ")">>
EnglishVersion ==
    <<"[", "E", "n", "g", "l", "i", "s", "h", " ", "v", "e", "r", "s", "i", "o", "n">> \o EnIndex
EnglishVersionZh == <<"[", "U+82F1", "U+6587", "U+7248">> \o EnIndex
VietnameseVersion ==
    <<"[", "P", "h", "i", "U+00EA", "n", " ", "b", "U+1EA3", "n", " ", "t", "i",
      "U+1EBF", "n", "g", " ", "V", "i", "U+1EC7", "t">> \o ViIndex
VietnameseVersionZh == <<"[", "U+8D8A", "U+5357", "U+8BED", "U+7248">> \o ViIndex
ChineseVersion ==
    <<"[", "C", "h", "i", "n", "e", "s", "e", " ", "v", "e", "r", "s", "i", "o", "n">> \o ZhIndex
ChineseVersionZh == <<"[", "U+4E2D", "U+6587", "U+7248">> \o ZhIndex

post_process_qmd(text, output_dir_) ==
    LET t1 == replace(text, LangEn, LangPrefix \o output_dir_)
        t2 == replace(t1, EnglishVersion, EnglishVersionZh)
        t3 == replace(t2, VietnameseVersion, VietnameseVersionZh)
    IN  replace(t3, ChineseVersion, ChineseVersionZh)

\* ----------------------------------------------------------------- state

VARIABLES
    \* translate_file
    lines,            \* src.read_text().splitlines(True)
    chunk_size,       \* --chunk-size
    max_workers,      \* --max-workers
    i,                \* the number of lines the loop has finished
    in_code,
    in_math,
    out,              \* translate_file's list of output lines
    rendered,         \* the text handed to dst.write_text
    pc,               \* where the main thread is
    \* translate_line
    parts,            \* the parts of PROTECTED_RE.split(line) not yet visited
    translated_parts,
    \* translate_segment
    chunks,
    seg_out,          \* translate_segment's pre-sized list `out`
    fut,              \* per chunk: "queued", "running", "collected"
    fut_result,       \* per chunk: the text its future holds
    fut_outcome,      \* per chunk: how its call of the capability ended, or "none"
    order,            \* the chunk indices in the order as_completed handed them over
    \* what the run has done to its collaborators
    calls,            \* the texts given to translator.translate
    n_calls,          \* the number of translator.translate calls
    n_waits,          \* the number of RateLimiter.wait calls
    all_failed,       \* TRUE while every translator.translate call so far raised
    \* chunk_text, run on its own
    ct_s,
    ct_size,
    ct_i,
    ct_out,
    ct_pc,
    \* RateLimiter and the threads that share it
    interval_s,
    next_ts,          \* RateLimiter._next_ts
    lock,             \* the thread holding RateLimiter._lock, or 0
    clock,            \* time.monotonic()
    th,               \* per thread: where it is and its locals
    grants,           \* the value of `now` at each execution of line 33, in order
    starts            \* per translator.translate call, in order: its grant and its start

fileVars == <<lines, chunk_size, max_workers, i, in_code, in_math, out, rendered>>
lineVars == <<parts, translated_parts>>
segVars == <<chunks, seg_out, fut, fut_result, fut_outcome, order>>
callVars == <<calls, n_calls, n_waits, all_failed>>
chunkerVars == <<ct_s, ct_size, ct_i, ct_out, ct_pc>>
limiterVars == <<interval_s, next_ts, lock, clock, th, grants, starts>>
pipelineVars == <<fileVars, pc, lineVars, segVars, callVars>>
vars == <<pipelineVars, chunkerVars, limiterVars>>

\* ----------------------------------------------------------------- input

\* The longest document, in lines.
MaxLines == 3

Fence == <<BQ, BQ, BQ>>
Dollars == <<"$", "$">>
Link == <<"[", "a", "]", "(", "b", ")">>

Structural == <<"1", ".", " ", "-", " ", "?", " ", "2", ".">>

\* The line contents documents are made of: the two fence markers, a code
\* fence with leading blanks and a language tag, the frontmatter line
\* post_process_qmd rewrites (prose of two chunks at the smaller chunk
\* size), prose with an inline code span, a blank and an inline math span, an
\* inline link, and a line without a letter (three chunks at the smaller
\* chunk size, structural only but for the one with the question mark).
LinePool ==
    { Fence,
      <<" ">> \o Fence \o <<"a">>,
      Dollars,
      LangEn,
      <<"a", BQ, "b", BQ, " ", "$", "d", "$">>,
      Link,
      Structural }

\* The document of the end-to-end scenario: prose with an inline code span
\* that ends in two dollar signs, a formula, a line of two dollar signs, and
\* prose without a line ending.
Hello == <<"H", "e", "l", "l", "o", " ">>
Code == <<BQ, "c", "o", "d", "e", BQ>>
World == <<" ", "w", "o", "r", "l", "d", ".", " ">>
Formula == <<"E", "=", "m", "c", "^", "2">>
MoreText == <<"M", "o", "r", "e", " ", "t", "e", "x", "t", ".">>
Scenario ==
    Hello \o Code \o World \o Dollars \o <<NL>> \o Formula \o <<NL>>
        \o Dollars \o <<NL>> \o MoreText

\* Line 155 on the scenario's document: its four lines.
ScenarioLines ==
    << Hello \o Code \o World \o Dollars \o <<NL>>,
       Formula \o <<NL>>,
       Dollars \o <<NL>>,
       MoreText >>

ChunkSizes == {4, 8}
WorkerCounts == {1, 2}
OutputDirs == {<<"z", "h">>, <<"e", "n">>}

RECURSIVE Documents(_)
\* The texts of at most n lines over LinePool, every line ended by a line
\* feed except, possibly, the last.
Documents(n) ==
    IF n = 0 THEN {<<>>}
    ELSE LET shorter == Documents(n - 1)
         IN  shorter \cup {d \o l \o <<NL>> : d \in {x \in shorter : x = <<>> \/ x[Len(x)] = NL},
                                              l \in LinePool}
                     \cup {d \o l : d \in {x \in shorter : x = <<>> \/ x[Len(x)] = NL},
                                    l \in LinePool \ {<<>>}}

\* ------------------------------------------------------- translate_file

NoSegment ==
    /\ chunks = <<>>
    /\ seg_out = <<>>
    /\ fut = <<>>
    /\ fut_result = <<>>
    /\ fut_outcome = <<>>
    /\ order = <<>>

\* The chunker and the limiter at rest: the state of their variables in a
\* run that does not exercise them on their own.
ChunkerIdle ==
    /\ ct_s = <<>>
    /\ ct_size = 1
    /\ ct_i = 0
    /\ ct_out = <<>>
    /\ ct_pc = "off"

LimiterIdle ==
    /\ interval_s = 1
    /\ next_ts = 0
    /\ lock = 0
    /\ clock = 0
    /\ th = <<>>
    /\ grants = <<>>
    /\ starts = <<>>

PipelineIdle ==
    /\ lines = <<>>
    /\ chunk_size = 1
    /\ max_workers = 1
    /\ i = 0
    /\ in_code = FALSE
    /\ in_math = FALSE
    /\ out = <<>>
    /\ rendered = <<>>
    /\ pc = "off"
    /\ parts = <<>>
    /\ translated_parts = <<>>
    /\ NoSegment
    /\ calls = {}
    /\ n_calls = 0
    /\ n_waits = 0
    /\ all_failed = TRUE

Init ==
    /\ ChunkerIdle
    /\ LimiterIdle
    /\ \E text \in Documents(MaxLines) \cup {Scenario} : lines = splitlines(text)
    /\ chunk_size \in ChunkSizes
    /\ max_workers \in WorkerCounts
    /\ i = 0
    /\ in_code = FALSE
    /\ in_math = FALSE
    /\ out = <<>>
    /\ rendered = <<>>
    /\ pc = "scan"
    /\ parts = <<>>
    /\ translated_parts = <<>>
    /\ NoSegment
    /\ calls = {}
    /\ n_calls = 0
    /\ n_waits = 0
    /\ all_failed = TRUE

\* The line the loop is at (lines[i] of the code's 1-based enumerate).
line == lines[i + 1]
stripped == strip(line)

\* Line 162: the stripped line starts with three backticks.
is_code_fence(l) == StartsWith(strip(l), Fence)

\* A test that takes any line ending in two dollar signs for a math fence.
is_math_fence_trailing(l) == EndsWith(strip(l), Dollars)

\* Line 166: the line is $$ once stripped.
is_math_fence(l) == strip(l) = Dollars

\* A test that forgets display math.
passes_through_code_only(code, math) == code

\* The test of line 171: the line is copied, not translated.
passes_through(code, math) == code \/ math

Scanning == pc = "scan" /\ i < Len(lines)

\* Lines 162-165: a code-fence line toggles in_code and is copied.
ScanCodeFence ==
    /\ Scanning
    /\ is_code_fence(line)
    /\ in_code' = ~in_code
    /\ out' = Append(out, line)
    /\ i' = i + 1
    /\ UNCHANGED <<lines, chunk_size, max_workers, in_math, rendered, pc,
                   lineVars, segVars, callVars, chunkerVars, limiterVars>>

\* Lines 166-169: a line that is $$ once stripped toggles in_math and is
\* copied.
ScanMathFence ==
    /\ Scanning
    /\ ~is_code_fence(line)
    /\ is_math_fence(line)
    /\ in_math' = ~in_math
    /\ out' = Append(out, line)
    /\ i' = i + 1
    /\ UNCHANGED <<lines, chunk_size, max_workers, in_code, rendered, pc,
                   lineVars, segVars, callVars, chunkerVars, limiterVars>>

\* Lines 171-172: inside a fenced region the line is copied.
ScanPassthrough ==
    /\ Scanning
    /\ ~is_code_fence(line)
    /\ ~is_math_fence(line)
    /\ passes_through(in_code, in_math)
    /\ out' = Append(out, line)
    /\ i' = i + 1
    /\ UNCHANGED <<lines, chunk_size, max_workers, in_code, in_math, rendered,
                   pc, lineVars, segVars, callVars, chunkerVars, limiterVars>>

\* Lines 174 and 124-125: a prose line, without its trailing line feeds, enters
\* translate_line, which splits it at the protected spans.
ScanProse ==
    /\ Scanning
    /\ ~is_code_fence(line)
    /\ ~is_math_fence(line)
    /\ ~passes_through(in_code, in_math)
    /\ parts' = split(rstrip_nl(line))
    /\ translated_parts' = <<>>
    /\ pc' = "line"
    /\ UNCHANGED <<fileVars, segVars, callVars, chunkerVars, limiterVars>>

\* ------------------------------------------------------- translate_line

\* The frame of the translate_segment call that returned is gone.
ClearSegment ==
    /\ chunks' = <<>>
    /\ seg_out' = <<>>
    /\ fut' = <<>>
    /\ fut_result' = <<>>
    /\ fut_outcome' = <<>>
    /\ order' = <<>>

\* Lines 127-128: an empty part is skipped.
PartEmpty ==
    /\ pc = "line"
    /\ parts # <<>>
    /\ Head(parts) = <<>>
    /\ parts' = Tail(parts)
    /\ ClearSegment
    /\ UNCHANGED <<fileVars, pc, translated_parts, callVars, chunkerVars, limiterVars>>

\* Lines 129-130: a protected part is kept as it is.
PartProtected ==
    /\ pc = "line"
    /\ parts # <<>>
    /\ Head(parts) # <<>>
    /\ is_protected(Head(parts))
    /\ translated_parts' = Append(translated_parts, Head(parts))
    /\ parts' = Tail(parts)
    /\ ClearSegment
    /\ UNCHANGED <<fileVars, pc, callVars, chunkerVars, limiterVars>>

\* Lines 132-133 and 101-110: any other part enters translate_segment, which
\* chunks it; one chunk is translated on the calling thread, several are
\* submitted to a pool and the output list is pre-sized.
PartSegment ==
    /\ pc = "line"
    /\ parts # <<>>
    /\ Head(parts) # <<>>
    /\ ~is_protected(Head(parts))
    /\ LET cs == chunk_text(Head(parts), chunk_size)
       IN  /\ chunks' = cs
           /\ seg_out' = [k \in 1..Len(cs) |-> <<>>]
           /\ fut' = [k \in 1..Len(cs) |-> "queued"]
           /\ fut_result' = [k \in 1..Len(cs) |-> <<>>]
           /\ fut_outcome' = [k \in 1..Len(cs) |-> "none"]
           /\ order' = <<>>
           /\ pc' = IF Len(cs) = 1 THEN "single" ELSE "pool"
    /\ UNCHANGED <<fileVars, lineVars, callVars, chunkerVars, limiterVars>>

\* Lines 135 and 174-177: translate_line returns the joined parts; the line
\* feed is put back when the line had one, and the line is appended.
LineReturn ==
    /\ pc = "line"
    /\ parts = <<>>
    /\ LET translated == Join(translated_parts)
       IN  out' = Append(out, IF EndsWith(line, <<NL>>)
                              THEN translated \o <<NL>> ELSE translated)
    /\ i' = i + 1
    /\ pc' = "scan"
    /\ translated_parts' = <<>>
    /\ ClearSegment
    /\ UNCHANGED <<lines, chunk_size, max_workers, in_code, in_math, rendered,
                   parts, callVars, chunkerVars, limiterVars>>

\* Lines 182-184: the output lines are joined, post-processed and written.
WriteOutput ==
    /\ pc = "scan"
    /\ i = Len(lines)
    /\ \E output_dir \in OutputDirs :
           rendered' = post_process_qmd(Join(out), output_dir)
    /\ pc' = "done"
    /\ UNCHANGED <<lines, chunk_size, max_workers, i, in_code, in_math, out,
                   lineVars, segVars, callVars, chunkerVars, limiterVars>>

\* ---------------------------------------------------- translate_segment

\* Lines 86-88 seen from outside: a chunk that is not inert costs one
\* RateLimiter.wait and one translator.translate call on the chunk.
Called(chunk, outcome) ==
    IF outcome = "none" THEN UNCHANGED callVars
    ELSE /\ n_waits' = n_waits + 1
         /\ n_calls' = n_calls + 1
         /\ calls' = calls \cup {chunk}
         /\ all_failed' = (all_failed /\ outcome = "raise")

\* Line 103: the only chunk is translated on the calling thread and its text
\* is what translate_segment returns to translate_line, which appends it.
SingleChunk ==
    /\ pc = "single"
    /\ \E o \in OutcomesFor(chunks[1]) :
           LET r == translate_chunk(chunks[1], o)
           IN  /\ Called(chunks[1], o)
               /\ fut' = <<"collected">>
               /\ fut_result' = <<r>>
               /\ fut_outcome' = <<o>>
               /\ order' = <<1>>
               /\ IF r.raised
                  THEN /\ pc' = "raised"
                       /\ UNCHANGED <<lineVars, seg_out>>
                  ELSE /\ pc' = "line"
                       /\ seg_out' = <<r.txt>>
                       /\ translated_parts' = Append(translated_parts, r.txt)
                       /\ parts' = Tail(parts)
    /\ UNCHANGED <<fileVars, chunks, chunkerVars, limiterVars>>

Running == {k \in 1..Len(fut) : fut[k] = "running"}

\* A pool thread takes the oldest submitted work item; the pool has at most
\* max_workers threads.
StartChunk(k) ==
    /\ pc = "pool"
    /\ fut[k] = "queued"
    /\ \A h \in 1..(k - 1) : fut[h] # "queued"
    /\ Cardinality(Running) < max_workers
    /\ fut' = [fut EXCEPT ![k] = "running"]
    /\ UNCHANGED <<fileVars, pc, lineVars, chunks, seg_out, fut_result,
                   fut_outcome, order, callVars, chunkerVars, limiterVars>>

\* The text goes to the slot of its turn, not of its index.
place_by_turn(list, idx, txt, nth) == [list EXCEPT ![nth] = txt]

\* Line 113: out[idx] = txt, for the nth future handed over.
place(list, idx, txt, nth) == [list EXCEPT ![idx] = txt]

\* translate_chunk ends on its pool thread, and lines 111-113: as_completed
\* hands the future over, in whatever order the futures complete, and its
\* text goes to the slot of its index; future.result() raises what
\* translate_chunk raised.  Only the collecting thread touches the slots, so
\* the hand-over is taken with the completion.
CompleteChunk(k) ==
    /\ pc = "pool"
    /\ fut[k] = "running"
    /\ \E o \in OutcomesFor(chunks[k]) :
           LET r == translate_chunk(chunks[k], o)
           IN  /\ Called(chunks[k], o)
               /\ fut_result' = [fut_result EXCEPT ![k] = r]
               /\ fut_outcome' = [fut_outcome EXCEPT ![k] = o]
               /\ IF r.raised
                  THEN pc' = "raised" /\ UNCHANGED seg_out
                  ELSE /\ seg_out' = place(seg_out, k, r.txt, Len(order) + 1)
                       /\ UNCHANGED pc
    /\ fut' = [fut EXCEPT ![k] = "collected"]
    /\ order' = Append(order, k)
    /\ UNCHANGED <<fileVars, lineVars, chunks, chunkerVars, limiterVars>>

\* A return as soon as one future has been collected, the others left to run.
SegmentReturn_first_done ==
    /\ pc = "pool"
    /\ \E k \in 1..Len(fut) : fut[k] = "collected"
    /\ translated_parts' = Append(translated_parts, Join(seg_out))
    /\ parts' = Tail(parts)
    /\ pc' = "line"
    /\ UNCHANGED <<fileVars, segVars, callVars, chunkerVars, limiterVars>>

\* Line 114: every future has been collected, the pool is shut down and the
\* slots are joined; translate_line appends the result.
SegmentReturn ==
    /\ pc = "pool"
    /\ \A k \in 1..Len(fut) : fut[k] = "collected"
    /\ translated_parts' = Append(translated_parts, Join(seg_out))
    /\ parts' = Tail(parts)
    /\ pc' = "line"
    /\ UNCHANGED <<fileVars, segVars, callVars, chunkerVars, limiterVars>>

Next ==
    \/ ScanCodeFence
    \/ ScanMathFence
    \/ ScanPassthrough
    \/ ScanProse
    \/ PartEmpty
    \/ PartProtected
    \/ PartSegment
    \/ SingleChunk
    \/ \E k \in 1..Len(fut) : StartChunk(k)
    \/ \E k \in 1..Len(fut) : CompleteChunk(k)
    \/ SegmentReturn
    \/ LineReturn
    \/ WriteOutput

Spec == Init /\ [][Next]_vars

\* ------------------------------------------------ chunk_text on its own

\* The texts chunk_text is run on: a head and a tail of letters and line
\* feeds around a run of letters that is empty, one minimum break offset long
\* or two; the longest head and tail.
MaxHead == 2
MaxTail == 4
\* The largest of the small chunk sizes, and how far the large ones go beyond
\* the minimum break offset.
MaxSmallSize == 3
MaxSizeExtra == 6

RECURSIVE Strings(_, _)
\* The texts of at most n characters over alphabet.
Strings(alphabet, n) ==
    IF n = 0 THEN {<<>>}
    ELSE LET shorter == Strings(alphabet, n - 1)
         IN  shorter \cup {Append(t, c) : t \in shorter, c \in alphabet}

Pad(n) == [k \in 1..n |-> "a"]

ChunkerTexts ==
    {h \o Pad(n) \o t : h \in Strings({"a", NL}, MaxHead),
                         n \in {0, MinBreakOffset, 2 * MinBreakOffset},
                         t \in Strings({"a", NL}, MaxTail)}

ChunkerSizes ==
    (1..MaxSmallSize) \cup {MinBreakOffset + d : d \in 1..MaxSizeExtra}

InitChunker ==
    /\ PipelineIdle
    /\ LimiterIdle
    /\ ct_s \in ChunkerTexts
    /\ ct_size \in ChunkerSizes
    /\ ct_i = 0
    /\ ct_out = <<>>
    /\ ct_pc = "loop"

\* Lines 66-73: one iteration of the while loop.
ChunkStep ==
    /\ ct_pc = "loop"
    /\ ct_i < Len(ct_s)
    /\ LET j == chunk_end(ct_s, ct_size, ct_i)
       IN  /\ ct_out' = Append(ct_out, chunk_slice(ct_s, ct_i, j))
           /\ ct_i' = j
    /\ UNCHANGED <<ct_s, ct_size, ct_pc, pipelineVars, limiterVars>>

\* Lines 66 and 74: the loop condition fails and out is returned.
ChunkReturn ==
    /\ ct_pc = "loop"
    /\ ~(ct_i < Len(ct_s))
    /\ ct_pc' = "done"
    /\ UNCHANGED <<ct_s, ct_size, ct_i, ct_out, pipelineVars, limiterVars>>

NextChunker == ChunkStep \/ ChunkReturn

SpecChunker == InitChunker /\ [][NextChunker]_vars

\* chunk_text runs on the thread that called it, which keeps running: a step
\* of the loop that can be taken is taken.
FairSpecChunker == SpecChunker /\ WF_vars(NextChunker)

\* ----------------------------------------- RateLimiter and its callers

\* The threads sharing the limiter, the grants of a run, and the last instant
\* of the clock.
NThreads == 2
MaxGrants == 3
MaxClock == 4

\* interval_s, in clock ticks.
Intervals == {1, 2}

Threads == 1..NThreads

InitLimiter ==
    /\ PipelineIdle
    /\ ChunkerIdle
    /\ interval_s \in Intervals
    /\ next_ts = 0
    /\ lock = 0
    /\ clock = 0
    /\ th = [t \in Threads |-> [pc |-> "idle", now |-> 0, wake_at |-> 0, grant_no |-> 0]]
    /\ grants = <<>>
    /\ starts = <<>>

\* time.monotonic() advances.
Tick ==
    /\ clock < MaxClock
    /\ clock' = clock + 1
    /\ UNCHANGED <<interval_s, next_ts, lock, th, grants, starts,
                   pipelineVars, chunkerVars>>

\* The calls of wait() begun and not yet granted, plus those granted.
Begun == Len(grants) + Cardinality({t \in Threads : th[t].pc \in {"locked", "sleeping", "advance"}})

\* A limiter whose lock does not exclude.
lock_free_always(holder) == TRUE

\* Line 28: `with self._lock` is entered when no thread holds the lock.
lock_free(holder) == holder = 0

\* Lines 86 and 28-29: a thread with a chunk to translate calls wait(), takes
\* the lock and reads the clock.
Acquire(t) ==
    /\ th[t].pc = "idle"
    /\ Begun < MaxGrants
    /\ lock_free(lock)
    /\ lock' = t
    /\ th' = [th EXCEPT ![t].pc = "locked", ![t].now = clock]
    /\ UNCHANGED <<interval_s, next_ts, clock, grants, starts,
                   pipelineVars, chunkerVars>>

\* A limiter that never sleeps.
must_sleep_never(now, next) == FALSE

\* Line 30: now < self._next_ts.
must_sleep(now, next) == now < next

\* Lines 30-31: too early, the thread goes to sleep for _next_ts - now,
\* counted from the instant sleep is called.
Sleep(t) ==
    /\ th[t].pc = "locked"
    /\ must_sleep(th[t].now, next_ts)
    /\ th' = [th EXCEPT ![t].pc = "sleeping",
                        ![t].wake_at = clock + (next_ts - th[t].now)]
    /\ UNCHANGED <<interval_s, next_ts, lock, clock, grants, starts,
                   pipelineVars, chunkerVars>>

\* Line 30, the test failing: no sleep.
NoSleep(t) ==
    /\ th[t].pc = "locked"
    /\ ~must_sleep(th[t].now, next_ts)
    /\ th' = [th EXCEPT ![t].pc = "advance"]
    /\ UNCHANGED <<interval_s, next_ts, lock, clock, grants, starts,
                   pipelineVars, chunkerVars>>

\* Lines 31-32: the sleep ends, not before the time asked for has passed,
\* and the clock is read again.
Wake(t) ==
    /\ th[t].pc = "sleeping"
    /\ clock >= th[t].wake_at
    /\ th' = [th EXCEPT ![t].pc = "advance", ![t].now = clock]
    /\ UNCHANGED <<interval_s, next_ts, lock, clock, grants, starts,
                   pipelineVars, chunkerVars>>

\* Line 33 and the end of the with block: _next_ts is set from now, the lock
\* is released and wait() returns.
Advance(t) ==
    /\ th[t].pc = "advance"
    /\ next_ts' = th[t].now + interval_s
    /\ grants' = Append(grants, th[t].now)
    /\ lock' = IF lock = t THEN 0 ELSE lock
    /\ th' = [th EXCEPT ![t] = [pc |-> "granted", now |-> 0, wake_at |-> 0,
                                 grant_no |-> Len(grants) + 1]]
    /\ UNCHANGED <<interval_s, clock, starts, pipelineVars, chunkerVars>>

\* A worker that calls the capability without having waited.
may_call_unpaced(t) == th[t].pc \in {"idle", "granted"}

\* Lines 86-88: translator.translate is called once wait() has returned.
may_call(t) == th[t].pc = "granted"

\* Line 88: the call of the capability starts.
Call(t) ==
    /\ may_call(t)
    /\ Len(starts) < MaxGrants
    /\ starts' = Append(starts, [no |-> th[t].grant_no, at |-> clock])
    /\ th' = [th EXCEPT ![t].pc = "calling"]
    /\ UNCHANGED <<interval_s, next_ts, lock, clock, grants,
                   pipelineVars, chunkerVars>>

\* Lines 88-91: the call returns or raises, translate_chunk returns and the
\* thread is free for its next chunk.
Return(t) ==
    /\ th[t].pc = "calling"
    /\ th' = [th EXCEPT ![t].pc = "idle", ![t].grant_no = 0]
    /\ UNCHANGED <<interval_s, next_ts, lock, clock, grants, starts,
                   pipelineVars, chunkerVars>>

NextLimiter ==
    \/ Tick
    \/ \E t \in Threads : Acquire(t)
    \/ \E t \in Threads : Sleep(t)
    \/ \E t \in Threads : NoSleep(t)
    \/ \E t \in Threads : Wake(t)
    \/ \E t \in Threads : Advance(t)
    \/ \E t \in Threads : Call(t)
    \/ \E t \in Threads : Return(t)

SpecLimiter == InitLimiter /\ [][NextLimiter]_vars

\* ---------------------------------------------------------------- claims

\* C3. Segmentation completeness: once chunk_text has returned for a text s
\* and a size n > 0, its chunks joined in list order are s, character for
\* character; while the loop runs, the chunks so far are the first i
\* characters of s.  The function the pipeline calls agrees with the loop.
C3_SegmentationComplete ==
    /\ ct_pc = "loop" => Join(ct_out) = Take(ct_s, ct_i)
    /\ ct_pc = "done" =>
           /\ Join(ct_out) = ct_s
           /\ chunk_text(ct_s, ct_size) = ct_out

\* A run that returned several chunks, one of them cut after a line break
\* before the hard boundary.
C3_Witness ==
    /\ ct_pc = "done"
    /\ Len(ct_out) >= 2
    /\ \E k \in 1..(Len(ct_out) - 1) :
           /\ Len(ct_out[k]) < ct_size
           /\ ct_out[k][Len(ct_out[k])] = NL

InSection == {t \in Threads : th[t].pc \in {"locked", "sleeping", "advance"}}

C9_PacedState ==
    /\ \A k \in 1..(Len(grants) - 1) : grants[k + 1] - grants[k] >= interval_s
    /\ Cardinality(InSection) <= 1
    /\ \A t \in InSection : lock = t
    /\ Len(grants) >= 1 =>
           grants[Len(grants)] - grants[1] >= (Len(grants) - 1) * interval_s

\* C9. Global pacing of grants: with one RateLimiter shared by the threads,
\* in every interleaving the clock values from which two successive wait()
\* calls set _next_ts are at least interval_s apart, at most one thread (the
\* lock holder) is between taking the lock and line 33, N grants span at
\* least (N-1)*interval_s, and _next_ts never decreases.
C9_GlobalPacing == []C9_PacedState /\ [][next_ts' >= next_ts]_vars

\* Two grants have been made, the second later than the first, and a thread
\* is asleep in wait() behind them while the other is between two chunks.
C9_Witness ==
    /\ Len(grants) >= 2
    /\ grants[2] > grants[1]
    /\ \E t \in Threads : th[t].pc = "sleeping" /\ th[t].wake_at > clock
    /\ \E t \in Threads : th[t].pc = "idle"

\* C10 as claimed. Minimum gap between external calls: the start instants of
\* any two translator.translate calls are at least interval_s apart.
C10_MinimumGapBetweenCalls ==
    \A a, b \in 1..Len(starts) :
        a < b => starts[b].at - starts[a].at >= interval_s

\* C10 as amended. Every translator.translate call starts at or after the
\* grant of the wait() that precedes it, two calls never share a grant, so
\* the grants behind any two calls are at least interval_s apart and the
\* k-th call to start does so at least (k-1)*interval_s after the first
\* grant; nothing bounds from below the gap between the start instants
\* themselves.
C10_CallsFollowPacedGrants ==
    /\ \A k \in 1..Len(starts) :
           /\ starts[k].no \in 1..Len(grants)
           /\ starts[k].at >= grants[starts[k].no]
           /\ starts[k].at >= grants[1] + (k - 1) * interval_s
    /\ \A a, b \in 1..Len(starts) :
           a < b =>
               /\ starts[a].no # starts[b].no
               /\ \/ grants[starts[b].no] - grants[starts[a].no] >= interval_s
                  \/ grants[starts[a].no] - grants[starts[b].no] >= interval_s

\* Two calls have started less than interval_s apart, each after its own
\* grant, the grants being interval_s apart.
C10_Witness ==
    /\ Len(starts) >= 2
    /\ starts[2].at - starts[1].at < interval_s
    /\ starts[1].no # starts[2].no
    /\ grants[2] - grants[1] >= interval_s

\* A call of translate_segment has just returned to translate_line.
SegmentReturned == pc = "line" /\ chunks # <<>>

Last(list) == list[Len(list)]

\* C1. Order preservation: whatever the order in which the futures complete,
\* translate_segment returns r0 + r1 + ... + rk, ri being what translate_chunk
\* returned for chunk ci, which is what translating the chunks one after
\* another in index order gives for the same answers of the capability;
\* while the futures are collected, every collected slot holds the text of
\* the chunk of its index.
C1_OrderPreserved ==
    /\ SegmentReturned =>
           /\ Last(translated_parts) = Join([k \in 1..Len(chunks) |-> fut_result[k].txt])
           /\ Last(translated_parts) =
                  Join([k \in 1..Len(chunks) |-> translate_chunk(chunks[k], fut_outcome[k]).txt])
    /\ pc = "pool" =>
           \A k \in 1..Len(chunks) :
               fut[k] = "collected" => seg_out[k] = fut_result[k].txt

\* A segment of two chunks whose futures completed last chunk first, the
\* first chunk translated and the last one not.
C1_Witness ==
    /\ SegmentReturned
    /\ chunks = << <<"l", "a", "n", "g">>, <<":", " ", "e", "n">> >>
    /\ order = <<2, 1>>
    /\ fut_outcome = <<"text", "raise">>
    /\ Last(translated_parts) = <<"L", "A", "N", "G", ":", " ", "e", "n">>

\* C2. Fallback safety: while every call of the translation capability has
\* raised, no exception has left translate_chunk (so none has reached
\* translate_segment, translate_line or the line loop) and every line the
\* loop has finished is in the output list as it was read, line ending
\* included; at the end of the loop the joined output is the input text.
C2_FallbackSafety ==
    all_failed =>
        /\ pc # "raised"
        /\ out = Take(lines, i)
        /\ (pc = "done" \/ (pc = "scan" /\ i = Len(lines))) => Join(out) = Join(lines)

\* The loop has ended after at least three calls of the capability, all of
\* which raised, on a document whose last line has no line ending.
C2_Witness ==
    /\ pc = "scan"
    /\ i = Len(lines)
    /\ i >= 2
    /\ all_failed
    /\ n_calls >= 3
    /\ ~EndsWith(lines[i], <<NL>>)

\* Whether line j of the document lies between an opening code-fence line
\* and the code-fence line that closes it.
InsideClosedCodeFence(j) ==
    /\ ~is_code_fence(lines[j])
    /\ Cardinality({k \in 1..(j - 1) : is_code_fence(lines[k])}) % 2 = 1
    /\ \E k \in (j + 1)..Len(lines) : is_code_fence(lines[k])

\* C4 as claimed. Fence passthrough: every line between an opening code
\* fence and its closing fence is, byte for byte, the same line of the text
\* translate_file writes (after post_process_qmd), whatever its content,
\* the output_dir and the behaviour of the capability.
C4_FencePassthrough ==
    pc = "done" =>
        \A j \in 1..Len(lines) :
            InsideClosedCodeFence(j) =>
                /\ j <= Len(splitlines(rendered))
                /\ splitlines(rendered)[j] = lines[j]

\* C5. Fenced regions are never sent to translation: the step of the line
\* loop taken at a fence-marker line, or at any line met while in_code or
\* in_math is true, calls neither the capability nor RateLimiter.wait and
\* appends the line to the output list as it is.
C5_FencedNeverTranslated ==
    [][(/\ Scanning
        /\ \/ is_code_fence(line)
           \/ is_math_fence(line)
           \/ in_code
           \/ in_math)
       => /\ n_calls' = n_calls
          /\ n_waits' = n_waits
          /\ calls' = calls
          /\ out' = Append(out, line)
          /\ i' = i + 1
          /\ pc' = "scan"]_vars

\* The frontmatter line, which has letters, stood inside a display-math
\* block (not inside a code block) and was copied without any call.
C5_Witness ==
    /\ pc = "scan"
    /\ i = 2
    /\ in_math
    /\ ~in_code
    /\ lines[2] = LangEn \o <<NL>>
    /\ out[2] = lines[2]
    /\ n_calls = 0
    /\ n_waits = 0

RECURSIVE find_spans(_, _, _)
\* The code and math spans the left-to-right scan of PROTECTED_RE finds in s
\* from position p on.
find_spans(s, p, acc) ==
    IF p > Len(s) THEN acc
    ELSE LET q == PROTECTED_RE(s, p)
         IN  IF q = 0 THEN find_spans(s, p + 1, acc)
             ELSE find_spans(s, q + 1, Append(acc, SubSeq(s, p, q)))

\* The least k with needle at text[k + 1 .. k + Len(needle)], or -1.
FirstAt(text, needle) ==
    LET at == {k \in 0..(Len(text) - Len(needle)) :
                   SubSeq(text, k + 1, k + Len(needle)) = needle}
    IN  IF at = {} THEN -1 ELSE CHOOSE k \in at : \A h \in at : k <= h

RECURSIVE OccurInOrder(_, _)
\* Whether the texts of list occur in text one after another, without
\* overlap.
OccurInOrder(list, text) ==
    IF list = <<>> THEN TRUE
    ELSE LET k == FirstAt(text, Head(list))
         IN  /\ k >= 0
             /\ OccurInOrder(Tail(list), Drop(text, k + Len(Head(list))))

\* translate_line has visited every part of the line and is about to return.
LineTranslated == pc = "line" /\ parts = <<>>

\* C6. Inline code and inline math preservation: no text given to the
\* capability contains a code span or a math span of the line being
\* translated, and once translate_line has visited every part, the spans
\* stand in its result byte for byte and in their original order.
C6_InlineSpansPreserved ==
    pc \in {"line", "single", "pool"} =>
        LET spans == find_spans(rstrip_nl(line), 1, <<>>)
        IN  /\ \A c \in calls : \A k \in 1..Len(spans) : ~Contains(c, spans[k])
            /\ LineTranslated => OccurInOrder(spans, Join(translated_parts))

\* The line with a code span and a math span has been translated: the prose
\* before the code span came back in upper case, the spans are as they were.
C6_Witness ==
    /\ LineTranslated
    /\ find_spans(rstrip_nl(line), 1, <<>>) = <<<<BQ, "b", BQ>>, <<"$", "d", "$">>>>
    /\ translated_parts = <<<<"A">>, <<BQ, "b", BQ>>, <<" ">>, <<"$", "d", "$">>>>
    /\ <<"a">> \in calls

\* C7 as claimed. Link preservation: an inline link [text](url) of a prose
\* line is masked from translation: no text given to the capability contains
\* the link, and the link stands byte for byte in the translated line.
C7_LinksMasked ==
    /\ \A c \in calls : ~Contains(c, Link)
    /\ (LineTranslated /\ Contains(line, Link)) =>
           Contains(Join(translated_parts), Link)

\* Whether a chunk has no letter: digits, punctuation and whitespace only.
NoLetter(chunk) == \A k \in 1..Len(chunk) : chunk[k] \notin Letters

\* C8 as claimed. Inert-chunk skip: a chunk made only of digits, punctuation
\* characters and whitespace is never given to the capability.
C8_InertChunkSkip == \A c \in calls : ~NoLetter(c)

\* Whether a chunk is made only of whitespace, digits and the characters
\* # > * - ` ~ : ; , . ! [ ] ( ) { } + = _ / \ |
StructuralOnly(chunk) == \A k \in 1..Len(chunk) : inert_char(chunk[k])

\* C8 as amended. Inert-chunk skip: for a chunk made only of whitespace,
\* digits and the characters # > * - ` ~ : ; , . ! [ ] ( ) { } + = _ / \ |
\* translate_chunk returns the chunk unchanged and calls neither the
\* capability nor RateLimiter.wait, on the calling thread as on a pool
\* thread; a chunk with any other character, a question mark for one, is
\* given to the capability.
C8_StructuralChunkSkip ==
    [][/\ (pc = "single" /\ StructuralOnly(chunks[1])) =>
              /\ UNCHANGED callVars
              /\ fut_result' = <<Returns(chunks[1])>>
              /\ translated_parts' = Append(translated_parts, chunks[1])
       /\ \A k \in 1..Len(fut) :
              (/\ pc = "pool"
               /\ fut[k] = "running"
               /\ fut'[k] = "collected"
               /\ StructuralOnly(chunks[k])) =>
                  /\ UNCHANGED callVars
                  /\ fut_result'[k] = Returns(chunks[k])
                  /\ seg_out'[k] = chunks[k]]_vars

\* A segment of three chunks has returned: its first and last chunks,
\* structural only, made no call and its second, which holds a question
\* mark, was given to the capability.
C8_Witness ==
    /\ SegmentReturned
    /\ chunks = << <<"1", ".", " ", "-">>, <<" ", "?", " ", "2">>, <<".">> >>
    /\ fut_outcome = <<"none", "text", "none">>
    /\ calls = {<<" ", "?", " ", "2">>}
    /\ n_calls = 1
    /\ n_waits = 1

\* C11 as claimed. Retry before fallback: when the call of the capability made
\* for a chunk raises, translate_chunk waits on the limiter and calls the
\* capability again for the same chunk before it falls back to the chunk; so
\* a translate_chunk that ends on a chunk whose call raised has cost at least
\* two calls of the capability and two calls of RateLimiter.wait.
C11_RetryBeforeFallback ==
    [][\A k \in 1..Len(fut') :
           (/\ fut'[k] = "collected"
            /\ fut[k] # "collected"
            /\ fut_outcome'[k] = "raise") =>
               /\ n_calls' >= n_calls + 2
               /\ n_waits' >= n_waits + 2]_vars

\* What translate_segment owes for chunk k: the translation when the call
\* returned a text, the chunk itself when the call raised, returned nothing
\* or was not made.
Owed(k) == IF fut_outcome[k] = "text" THEN translate(chunks[k]) ELSE chunks[k]

\* C12. Failure isolation: in a segment of several chunks, whichever calls
\* raise and in whatever order the futures complete, no exception leaves the
\* pool, every collected slot holds what is owed for its own chunk whatever
\* happened to its siblings, and translate_segment returns only after every
\* chunk was processed (every chunk that is not inert was given to the
\* capability), with the owed texts joined in index order.
C12_FailureIsolation ==
    /\ pc = "pool" =>
           \A k \in 1..Len(chunks) : fut[k] = "collected" => seg_out[k] = Owed(k)
    /\ Len(chunks) >= 2 => pc # "raised"
    /\ (SegmentReturned /\ Len(chunks) >= 2) =>
           /\ \A k \in 1..Len(chunks) :
                  /\ fut[k] = "collected"
                  /\ \E n \in 1..Len(order) : order[n] = k
                  /\ fut_outcome[k] \in OutcomesFor(chunks[k])
                  /\ ~is_inert(chunks[k]) => chunks[k] \in calls
           /\ Len(order) = Len(chunks)
           /\ Last(translated_parts) = Join([k \in 1..Len(chunks) |-> Owed(k)])

\* The two chunks of the link line: the call for the first raised and was
\* collected first, the second was translated all the same.
C12_Witness ==
    /\ SegmentReturned
    /\ chunks = << <<"[", "a", "]", "(">>, <<"b", ")">> >>
    /\ order = <<1, 2>>
    /\ fut_outcome = <<"raise", "text">>
    /\ Last(translated_parts) = <<"[", "a", "]", "(", "B", ")">>

\* C16. An empty result is never accepted: when the capability returns a
\* falsy result for a chunk, translate_chunk returns the chunk; and whatever
\* the capability returns or raises, translate_chunk returns a text that is
\* not empty for a chunk that is not empty (chunk_text makes no empty chunk).
C16_EmptyNeverAccepted ==
    \A k \in 1..Len(fut) :
        fut[k] = "collected" =>
            /\ fut_outcome[k] = "empty" => fut_result[k] = Returns(chunks[k])
            /\ chunks[k] # <<>>
            /\ ~fut_result[k].raised
            /\ fut_result[k].txt # <<>>

\* The capability returned nothing for a chunk with letters, on the calling
\* thread, and translate_line got the chunk back.
C16_Witness ==
    /\ SegmentReturned
    /\ chunks = <<Link>>
    /\ fut_outcome = <<"empty">>
    /\ Last(translated_parts) = Link

\* C14 as claimed. Fence-state exclusivity: at no point of the line scan are
\* in_code and in_math both true.
C14_FenceStatesExclusive == ~(in_code /\ in_math)

\* Whether c is a piece (a contiguous part) of one of the texts.
PieceOf(c, texts) == \E t \in texts : Contains(t, c)

\* Whether every chunk of text was given to the capability.
GivenToCapability(text) ==
    \A k \in 1..Len(chunk_text(text, chunk_size)) :
        chunk_text(text, chunk_size)[k] \in calls

\* C13 as claimed. End-to-end scenario: on the four-line document the formula
\* line is copied and never given to the capability, the code span stands
\* in the output, and the only texts given to the capability are pieces of
\* the prose around the code span and of the last line, which is translated.
C13_EndToEndScenario ==
    lines = ScenarioLines =>
        /\ splitlines(Scenario) = ScenarioLines
        /\ \A c \in calls : PieceOf(c, {Hello, World, MoreText})
        /\ i >= 1 => Contains(out[1], Code)
        /\ i >= 2 => out[2] = lines[2]
        /\ pc = "done" => GivenToCapability(MoreText)

\* C13 as amended. On the four-line document the first line is prose: its
\* code span and its closing two dollar signs (an empty inline math span)
\* stand in the output and in_math stays false; the formula line is prose
\* too and is given to the capability; the third line, two dollar signs
\* alone, sets in_math; the last line is copied as it is; the only texts
\* given to the capability are pieces of the prose around the code span and
\* of the formula.
C13_ScenarioAsCoded ==
    lines = ScenarioLines =>
        /\ splitlines(Scenario) = ScenarioLines
        /\ \A c \in calls : PieceOf(c, {Hello, World, Formula})
        /\ ~in_code
        /\ in_math <=> i >= 3
        /\ i >= 1 =>
               /\ SubSeq(out[1], Len(Hello) + 1, Len(Hello \o Code)) = Code
               /\ EndsWith(out[1], Dollars \o <<NL>>)
               /\ Len(out[1]) = Len(lines[1])
               /\ GivenToCapability(Hello)
               /\ GivenToCapability(World)
        /\ i >= 2 => GivenToCapability(Formula)
        /\ i >= 3 => out[3] = lines[3]
        /\ i >= 4 => out[4] = MoreText

\* The scenario has been written: the formula came back translated and the
\* last line is as it was read.
C13_Witness ==
    /\ pc = "done"
    /\ lines = ScenarioLines
    /\ out[2] = <<"E", "=", "M", "C", "^", "2", NL>>
    /\ splitlines(rendered)[4] = MoreText
    /\ calls = {Hello, World, Formula}

\* The 1-based positions of the line feeds of s in the window of `size`
\* characters that starts after the first `start` characters.
BreaksInWindow(s, start, size) ==
    {q \in (start + 1)..Min(Len(s), start + size) : s[q] = NL}

\* The 0-based index at which the chunk appended last starts.
LastStart == ct_i - Len(Last(ct_out))

\* C15. Chunk bounds and cut rule: every chunk chunk_text makes (looked at
\* when the loop appends it) has at most `size` characters; a chunk that is
\* not the last has exactly `size` characters unless the last line feed of
\* its window of `size` characters lies more than 80 characters after the
\* chunk start, and then the chunk ends with that line feed; a text of at
\* most `size` characters is returned as one chunk, the empty text as no
\* chunk.
C15_ChunkBoundsAndCutRule ==
    /\ ct_out # <<>> =>
           LET breaks == BreaksInWindow(ct_s, LastStart, ct_size)
           IN  /\ LastStart >= 0
               /\ Last(ct_out) = SubSeq(ct_s, LastStart + 1, ct_i)
               /\ Len(Last(ct_out)) <= ct_size
               /\ ct_i < Len(ct_s) =>
                      IF \E q \in breaks :
                             /\ \A r \in breaks : r <= q
                             /\ (q - 1) - LastStart > MinBreakOffset
                      THEN /\ ct_i \in breaks
                           /\ \A r \in breaks : r <= ct_i
                           /\ Last(ct_out)[Len(Last(ct_out))] = NL
                      ELSE Len(Last(ct_out)) = ct_size
    /\ ct_pc = "done" =>
           /\ ct_s = <<>> => ct_out = <<>>
           /\ (ct_s # <<>> /\ Len(ct_s) <= ct_size) => ct_out = <<ct_s>>

\* The loop has just cut a chunk at the last of several line feeds of its
\* window, short of the size, one of the line feeds being too close to the
\* chunk start to be cut at.
C15_Witness ==
    /\ ct_pc = "loop"
    /\ ct_out # <<>>
    /\ ct_i < Len(ct_s)
    /\ Len(Last(ct_out)) < ct_size
    /\ Cardinality(BreaksInWindow(ct_s, LastStart, ct_size)) >= 3
    /\ \E q \in BreaksInWindow(ct_s, LastStart, ct_size) :
           (q - 1) - LastStart <= MinBreakOffset

C17_Progress ==
    /\ ct_i \in 0..Len(ct_s)
    /\ Len(ct_out) <= ct_i
    /\ \A k \in 1..Len(ct_out) : ct_out[k] # <<>>

\* C17. Segmenter progress and termination: every iteration of chunk_text's
\* loop moves the index forward by at least one character, never beyond the
\* end of the text, and appends one chunk that is not empty, so there are at
\* most len(s) chunks; and the loop ends.
C17_ProgressAndTermination ==
    /\ []C17_Progress
    /\ [][ct_out' # ct_out =>
              /\ ct_i' >= ct_i + 1
              /\ Len(ct_out') = Len(ct_out) + 1
              /\ Len(Last(ct_out')) = ct_i' - ct_i]_vars
    /\ <>(ct_pc = "done")

\* A run on a text of four characters or more that ended with as many
\* chunks as the text has characters.
C17_Witness ==
    /\ ct_pc = "done"
    /\ Len(ct_s) >= 4
    /\ Len(ct_out) = Len(ct_s)

C18_OneSegmentInFlight ==
    /\ Cardinality(Running) <= max_workers
    /\ Running # {} => (pc = "pool" /\ Len(chunks) >= 2)
    /\ pc \in {"scan", "line", "done"} =>
           \A k \in 1..Len(fut) : fut[k] = "collected"

\* C18. Line-sequential dispatch: translate calls run concurrently only for
\* the chunks of one segment that chunk_text split in two or more, at most
\* max_workers at a time; translate_segment returns only when every one of
\* its chunks is done, so when the next segment or line is taken up (and
\* when the output is written) no call of an earlier one is running or
\* waiting to run.
C18_LineSequentialDispatch ==
    /\ []C18_OneSegmentInFlight
    /\ [][(chunks' # chunks \/ i' # i \/ pc' = "done") =>
              /\ Running = {}
              /\ \A k \in 1..Len(fut) : fut[k] = "collected"]_vars

\* After the calls of an earlier line, two chunks of a segment of three are
\* in flight on the two workers and the third waits for a free worker.
C18_Witness ==
    /\ pc = "pool"
    /\ i >= 1
    /\ n_calls >= 1
    /\ max_workers = 2
    /\ Cardinality(Running) = 2
    /\ \E k \in 1..Len(fut) : fut[k] = "queued"

\* C19. No line break reaches chunk_text: no part of a line translate_line
\* works on and no chunk of a segment holds a line feed, and every chunk of
\* a segment but the last has exactly chunk_size characters, the last at
\* most chunk_size.
C19_NoLineBreakInSegment ==
    /\ \A n \in 1..Len(parts) : \A q \in 1..Len(parts[n]) : parts[n][q] # NL
    /\ \A k \in 1..Len(chunks) :
           /\ \A q \in 1..Len(chunks[k]) : chunks[k][q] # NL
           /\ Len(chunks[k]) <= chunk_size
           /\ k < Len(chunks) => Len(chunks[k]) = chunk_size

\* The first prose of the scenario's first line, a line that ends with a
\* line feed, has been cut inside its word.
C19_Witness ==
    /\ pc = "pool"
    /\ EndsWith(line, <<NL>>)
    /\ chunks = << <<"H", "e", "l", "l">>, <<"o", " ">> >>

====
